---- MODULE Spec2Model ----
(***************************************************************************)
(* Price widget of bitcoincalculadora.com (src/src/js/main.js).            *)
(*                                                                         *)
(* fetchBtcPrice is an async function: it suspends at `await fetch(url)`   *)
(* and at `await response.json()` and runs atomically between two          *)
(* suspension points (single-threaded event loop).  Every invocation is a  *)
(* record of `call`; the module-level variables btcPrice and               *)
(* currentApiSource and the three presentation elements are shared by all  *)
(* invocations.                                                            *)
(*                                                                         *)
(* Numbers are fixed-point with two decimals: Num(5000000) is 50000.00.    *)
(***************************************************************************)
EXTENDS Integers, Sequences, FiniteSets, TLC

\* Largest number of fetchBtcPrice invocations one behaviour starts.
MaxFetches == 2

Calls == 1..MaxFetches

----------------------------------------------------------------------------
(* JavaScript values that can reach btcPrice.                               *)

Null == [t |-> "null", n |-> 0]
Undefined == [t |-> "undefined", n |-> 0]
NaN == [t |-> "NaN", n |-> 0]
Num(x) == [t |-> "number", n |-> x]
\* A string holding the decimal notation of x.
Str(x) == [t |-> "string", n |-> x]

----------------------------------------------------------------------------
(* Configuration.                                                           *)

API_SOURCES == << [name |-> "CoinGecko"],
                  [name |-> "Blockchain.info"],
                  [name |-> "CoinCap"] >>

NumSources == Len(API_SOURCES)

NoSource == "null"

\* A JSON body, as far as parsePrice reads it: `outer` says whether the object
\* the price hangs from (data.bitcoin, data.EUR, data.data) exists, `leaf` is
\* the value of the price property (Undefined when the property is missing).
Body(outer, leaf) == [outer |-> outer, leaf |-> leaf]

\* The values the price property takes in the responses enumerated.
Leaves == {Undefined, Num(5000000), Num(-500), Str(5000000)}

Bodies == {Body(FALSE, Undefined)} \cup {Body(TRUE, l) : l \in Leaves}

\* What one source answers to one request: the fetch promise rejects, the
\* response is not ok, the body is not JSON, or the body is JSON.
Answer(net, json, body) == [net |-> net, json |-> json, body |-> body]

Answers ==
    {Answer("reject", "bad", Body(FALSE, Undefined)),
     Answer("notok", "bad", Body(FALSE, Undefined)),
     Answer("ok", "bad", Body(FALSE, Undefined))}
    \cup {Answer("ok", "ok", b) : b \in Bodies}

\* The answers of the three sources to one invocation.
Scripts == [1..NumSources -> Answers]

\* Documents the script runs in: the ids of the elements present.
Documents ==
    {{},
     {"price-dot", "btc-price", "api-source", "refresh-price"},
     {"price-dot", "api-source", "refresh-price"}}

\* What the page has listening to btcPriceUpdated: nothing, or a listener
\* that throws.
Listeners == {"none", "throws"}

----------------------------------------------------------------------------
(* Pure parts of the code.                                                  *)

Returned(v) == [threw |-> FALSE, value |-> v]
Threw == [threw |-> TRUE, value |-> Undefined]

\* parseFloat: a number or a numeric string gives the number, else NaN.
ParseFloat(v) == IF v.t \in {"number", "string"} THEN Num(v.n) ELSE NaN

\* x * 0.92
Times092(v) == IF v.t = "number" THEN Num((v.n * 92) \div 100) ELSE NaN

\* api.parsePrice(data): reading a property of undefined throws a TypeError,
\* a missing property reads as undefined.
ParsePrice(k, data) ==
    IF ~data.outer THEN Threw
    ELSE IF k = 3 THEN Returned(Times092(ParseFloat(data.leaf)))
    ELSE Returned(data.leaf)

\* Texts shown in an element.
Text(s, n) == [s |-> s, n |-> n]
Markup == Text("(markup)", 0)
SinConexion == Text("sin conexión", 0)
Via(name) == Text("vía " \o name, 0)

\* Round a two-decimal fixed-point number to an integer, half away from zero.
RoundInt(x) == IF x >= 0 THEN (x + 50) \div 100 ELSE -((-x + 50) \div 100)

\* formatEur(num): num.toLocaleString(...) + ' €'.  Calling a method of null
\* or undefined throws a TypeError; a number is shown without decimals; a
\* string is shown as it is.
FormatEur(v) ==
    CASE v.t \in {"null", "undefined"} -> Threw
      [] v.t = "number" -> Returned(Text("€", RoundInt(v.n)))
      [] v.t = "NaN" -> Returned(Text("NaN €", 0))
      [] OTHER -> Returned(Text("string €", v.n))

\* window.dispatchEvent(new CustomEvent('btcPriceUpdated', ...)): the
\* listeners run; an exception of a listener is reported, not thrown to the
\* caller of dispatchEvent.
DispatchEvent(listener, price) == Returned(price)

----------------------------------------------------------------------------
(* The conversions.  Their amounts are rationals p/q with q > 0; EUR amounts *)
(* count hundredths like the prices, so that 1/1 is one cent.               *)

Ratio(p, q) == [p |-> p, q |-> q]
Zero == Ratio(0, 1)

\* 10^8 satoshis per bitcoin.
SatsPerBtc == 100000000

\* !btcPrice: null, undefined, NaN and 0 are falsy, a non-empty string is not.
Falsy(v) == v.t \in {"null", "undefined", "NaN"} \/ (v.t = "number" /\ v.n = 0)

\* x / price and x * price, price a number or a numeric string.
DivideBy(x, price) ==
    IF price.n > 0 THEN Ratio(x.p, x.q * price.n)
    ELSE Ratio(-x.p, x.q * (-price.n))
MultiplyBy(x, price) == Ratio(x.p * price.n, x.q)

\* Math.floor in the place of Math.round.
MathFloor(x) == Ratio(x.p \div x.q, 1)

\* Math.round: the nearest integer, a half rounds up.
MathRound(x) ==
    Ratio((x.p \div x.q) + (IF 2 * (x.p % x.q) >= x.q THEN 1 ELSE 0), 1)

\* The guard without the amount's sign: if (!btcPrice) return 0.
EurToBtcAnyAmount(price, eur) ==
    IF Falsy(price) THEN Zero ELSE DivideBy(eur, price)

\* function eurToBtc(eur)
EurToBtc(price, eur) ==
    IF Falsy(price) \/ eur.p <= 0 THEN Zero ELSE DivideBy(eur, price)

\* function eurToSats(eur)
EurToSats(price, eur) ==
    LET btc == EurToBtc(price, eur)
    IN  MathRound(Ratio(btc.p * SatsPerBtc, btc.q))

\* function btcToEur(btc)
BtcToEur(price, btc) ==
    IF Falsy(price) \/ btc.p <= 0 THEN Zero ELSE MultiplyBy(btc, price)

\* function satsToEur(sats)
SatsToEur(price, sats) == BtcToEur(price, Ratio(sats.p, sats.q * SatsPerBtc))

\* A conversion call as the page observes it: the function, its argument and
\* result, the price it read, and, when the argument was the result of the
\* call before, the amount and the price of that call.
Conv(fn, arg, out, price, src, srcPrice) ==
    [fn |-> fn, arg |-> arg, out |-> out, price |-> price,
     src |-> src, srcPrice |-> srcPrice]
NoConv == Conv("none", Zero, Zero, Null, Zero, Null)

\* The EUR amounts the page converts: -5.00, 0, 0.0001, 0.01 and 0.10.
Amounts == {Ratio(-500, 1), Zero, Ratio(1, 100), Ratio(1, 1), Ratio(10, 1)}

\* Bitcoin and satoshi amounts the page converts besides earlier results.
OtherAmounts == {Ratio(-5, 1), Zero}

----------------------------------------------------------------------------
(* One invocation of fetchBtcPrice as a step function on                    *)
(*   s: the shared state (module variables and elements),                   *)
(*   c: the invocation's own state.                                         *)

\* The invocation before it is called.
IdleCall ==
    [pc |-> "idle", api |-> 0, status |-> "pending", ret |-> Undefined,
     pending |-> {}, requested |-> <<>>, writes |-> <<>>, dispatched |-> <<>>,
     before |-> [btcPrice |-> Null, currentApiSource |-> NoSource]]

Cfg(s, c) == [s |-> s, c |-> c]

Has(s, id) == id \in s.elements

\* A request to every source from k on at once.
IssueAll(k) == k..NumSources

\* `await fetch(api.url)`: one request, to the source the loop is at.
Issue(k) == {k}

\* The sources are exhausted, the price is reset to zero.
ExhaustedReset(s, c) ==
    Cfg([s EXCEPT !.btcPrice = Num(0)],
        [c EXCEPT !.pc = "done", !.api = 0, !.pending = {},
                  !.status = "failure", !.ret = Null])

\* The sources are exhausted, null is returned and no element is touched.
ExhaustedSilent(s, c) ==
    Cfg(s, [c EXCEPT !.pc = "done", !.api = 0, !.pending = {},
                     !.status = "failure", !.ret = Null])

\* After the loop: 'sin conexión', the error dot, return null.
Exhausted(s, c) ==
    Cfg([s EXCEPT
           !.priceDisplay = IF Has(s, "btc-price") THEN SinConexion ELSE @,
           !.priceDot = IF Has(s, "price-dot") THEN "price-dot error" ELSE @],
        [c EXCEPT !.pc = "done", !.api = 0, !.pending = {},
                  !.status = "failure", !.ret = Null])

\* for (const api of API_SOURCES): the loop moves to source k and requests
\* it, or ends when there is no source k.
Iterate(s, c, k) ==
    IF k <= NumSources
    THEN Cfg(s, [c EXCEPT !.pc = "fetch", !.api = k,
                          !.pending = Issue(k),
                          !.requested = Append(@, k)])
    ELSE Exhausted(s, c)

\* The call itself, up to the first await.
Begin(s, c) ==
    Iterate([s EXCEPT !.priceDot =
                 IF Has(s, "price-dot") THEN "price-dot loading" ELSE @],
            [c EXCEPT !.before = [btcPrice |-> s.btcPrice,
                                  currentApiSource |-> s.currentApiSource]],
            1)

\* The exception leaves fetchBtcPrice: its promise rejects.
CatchRethrow(s, c) ==
    Cfg(s, [c EXCEPT !.pc = "done", !.api = 0, !.pending = {},
                     !.status = "rejected"])

\* The catch block requests the same source again.
CatchRetry(s, c) == Iterate(s, [c EXCEPT !.pending = {}], c.api)

\* catch (error) { console.warn(...); continue; }
Catch(s, c) == Iterate(s, [c EXCEPT !.pending = {}], c.api + 1)

\* A response that is not ok ends the loop.
NotOkBreak(s, c) == Exhausted(s, c)

\* if (!response.ok) continue;
NotOk(s, c) == Iterate(s, [c EXCEPT !.pending = {}], c.api + 1)

\* The fetch promise of the pending request settles.
OnFetch(s, c, net) ==
    CASE net = "reject" -> Catch(s, c)
      [] net = "notok" -> NotOk(s, c)
      [] OTHER -> Cfg(s, [c EXCEPT !.pc = "json"])

\* The price is stored, the name of its source is not.
StorePriceOnly(s, name, value) == [s EXCEPT !.btcPrice = value]

\* btcPrice = api.parsePrice(data); currentApiSource = api.name;
Store(s, name, value) ==
    [s EXCEPT !.btcPrice = value, !.currentApiSource = name]

\* The statements after a body was read: store, show, notify, return.
OnData(s, c, data) ==
    LET p == ParsePrice(c.api, data)
        name == API_SOURCES[c.api].name
        s1 == Store(s, name, p.value)
        c1 == [c EXCEPT !.writes = Append(@, p.value)]
        shown == FormatEur(s1.btcPrice)
        s2 == [s1 EXCEPT
                 !.priceDisplay = IF Has(s, "btc-price") THEN shown.value ELSE @,
                 !.apiSourceDisplay = IF Has(s, "api-source") THEN Via(name) ELSE @,
                 !.priceDot = IF Has(s, "price-dot") THEN "price-dot" ELSE @]
        fired == DispatchEvent(s.listener, s2.btcPrice)
    IN  IF p.threw THEN Catch(s, c)
        ELSE IF Has(s, "btc-price") /\ shown.threw THEN Catch(s1, c1)
        ELSE IF fired.threw THEN Catch(s2, c1)
        ELSE Cfg(s2, [c1 EXCEPT !.pc = "done", !.api = 0, !.pending = {},
                                !.status = "success", !.ret = s2.btcPrice,
                                !.dispatched = Append(@, fired.value)])

\* The json promise of the pending response settles.
OnJson(s, c, json, data) ==
    IF json = "bad" THEN Catch(s, c) ELSE OnData(s, c, data)

----------------------------------------------------------------------------
(* The state machine.                                                       *)

VARIABLES
    btcPrice,           \* let btcPrice
    currentApiSource,   \* let currentApiSource
    elements,           \* ids of the elements the document holds
    listener,           \* what listens to btcPriceUpdated
    priceDot,           \* className of #price-dot
    priceDisplay,       \* textContent of #btc-price
    apiSourceDisplay,   \* textContent of #api-source
    running,            \* initPriceUpdates ran: timer set, click bound
    call,               \* the invocations of fetchBtcPrice
    plan,               \* per invocation: its sources' answers, <<>> when open
    lastParsed,         \* the value parsePrice returned most recently
    lastParsedFrom,     \* the name of the source lastParsed was parsed from
    lastSuccess,        \* the invocation that returned a price most recently
    lastDone,           \* the invocation that ended most recently
    conv                \* the conversion called most recently

vars == <<btcPrice, currentApiSource, elements, listener, priceDot, priceDisplay,
          apiSourceDisplay, running, call, plan, lastParsed, lastParsedFrom,
          lastSuccess, lastDone, conv>>

Shared ==
    [btcPrice |-> btcPrice, currentApiSource |-> currentApiSource,
     elements |-> elements, listener |-> listener, priceDot |-> priceDot,
     priceDisplay |-> priceDisplay, apiSourceDisplay |-> apiSourceDisplay]

\* function getBtcPrice() { return btcPrice; }
GetBtcPrice == btcPrice

Started == {f \in Calls : call[f].pc # "idle"}
InFlight == {f \in Calls : call[f].pc \in {"fetch", "json"}}

\* The invocation f goes from Shared, call[f] to the configuration r.
Becomes(f, r) ==
    /\ btcPrice' = r.s.btcPrice
    /\ currentApiSource' = r.s.currentApiSource
    /\ priceDot' = r.s.priceDot
    /\ priceDisplay' = r.s.priceDisplay
    /\ apiSourceDisplay' = r.s.apiSourceDisplay
    /\ call' = [call EXCEPT ![f] = r.c]
    /\ lastParsed' = IF Len(r.c.writes) > Len(call[f].writes)
                     THEN r.c.writes[Len(r.c.writes)] ELSE lastParsed
    /\ lastParsedFrom' = IF Len(r.c.writes) > Len(call[f].writes)
                         THEN API_SOURCES[call[f].api].name ELSE lastParsedFrom
    /\ lastSuccess' = IF r.c.status = "success" THEN f ELSE lastSuccess
    /\ lastDone' = IF r.c.pc = "done" THEN f ELSE lastDone
    /\ UNCHANGED <<elements, listener, conv>>

\* fetchBtcPrice() is called: the next invocation starts.
Invoke ==
    /\ Cardinality(Started) < MaxFetches
    /\ Becomes(Cardinality(Started) + 1,
               Begin(Shared, call[Cardinality(Started) + 1]))

InitShared ==
    /\ elements \in Documents
    /\ listener \in Listeners
    /\ priceDot = "(markup)"
    /\ priceDisplay = Markup
    /\ apiSourceDisplay = Markup
    /\ call = [f \in Calls |-> IdleCall]
    /\ lastSuccess = 0
    /\ lastDone = 0
    /\ conv = NoConv

\* The page as loaded: nothing fetched yet.
Init ==
    /\ InitShared
    /\ btcPrice = Null
    /\ currentApiSource = NoSource
    /\ lastParsed = Null
    /\ lastParsedFrom = NoSource
    /\ running = FALSE
    /\ plan = [f \in Calls |-> <<>>]

\* initPriceUpdates(): fetch at once, set the timer, bind the refresh button.
InitPriceUpdates ==
    /\ ~running
    /\ running' = TRUE
    /\ Invoke
    /\ UNCHANGED plan

\* setInterval(fetchBtcPrice, intervalMs) fires.
TimerTick ==
    /\ running
    /\ Invoke
    /\ UNCHANGED <<running, plan>>

\* A click on #refresh-price.
RefreshClick ==
    /\ running
    /\ "refresh-price" \in elements
    /\ Invoke
    /\ UNCHANGED <<running, plan>>

Planned(f, field, v) ==
    IF plan[f] = <<>> THEN TRUE ELSE plan[f][call[f].api][field] = v

FetchSettled(f, net) ==
    /\ call[f].pc = "fetch"
    /\ Planned(f, "net", net)
    /\ Becomes(f, OnFetch(Shared, call[f], net))
    /\ UNCHANGED <<running, plan>>

JsonSettled(f, json, data) ==
    /\ call[f].pc = "json"
    /\ Planned(f, "json", json)
    /\ json = "ok" => Planned(f, "body", data)
    /\ json = "bad" => data = Body(FALSE, Undefined)
    /\ Becomes(f, OnJson(Shared, call[f], json, data))
    /\ UNCHANGED <<running, plan>>

\* The promise invocation f awaits settles.
SettleCall(f) ==
    \/ \E net \in {"reject", "notok", "ok"} : FetchSettled(f, net)
    \/ \E json \in {"bad", "ok"}, data \in Bodies : JsonSettled(f, json, data)

Settle == \E f \in Calls : SettleCall(f)

Next == InitPriceUpdates \/ TimerTick \/ RefreshClick \/ Settle

Spec == Init /\ [][Next]_vars

----------------------------------------------------------------------------
(* One invocation, called directly (the function is exported), with the     *)
(* answers of the three sources fixed beforehand and a price of an earlier  *)
(* fetch possibly held.                                                     *)

Earlier == {[btcPrice |-> Null, currentApiSource |-> NoSource],
            [btcPrice |-> Num(6000000), currentApiSource |-> "CoinGecko"]}

InitSeq ==
    /\ InitShared
    /\ \E e \in Earlier :
         /\ btcPrice = e.btcPrice
         /\ currentApiSource = e.currentApiSource
         /\ lastParsed = e.btcPrice
         /\ lastParsedFrom = e.currentApiSource
    /\ running = FALSE
    /\ \E script \in Scripts :
         plan = [f \in Calls |-> IF f = 1 THEN script ELSE <<>>]

CallFetch ==
    /\ Started = {}
    /\ Invoke
    /\ UNCHANGED <<running, plan>>

NextSeq == CallFetch \/ Settle

SpecSeq == InitSeq /\ [][NextSeq]_vars

\* The same, with every request and every body read settling eventually.
SpecSeqFair == SpecSeq /\ \A f \in Calls : WF_vars(SettleCall(f))

----------------------------------------------------------------------------
(* The page converting amounts before, while and after one invocation, whose *)
(* sources answer as they like.                                             *)

InitConv ==
    /\ InitShared
    /\ \E e \in Earlier :
         /\ btcPrice = e.btcPrice
         /\ currentApiSource = e.currentApiSource
         /\ lastParsed = e.btcPrice
         /\ lastParsedFrom = e.currentApiSource
    /\ running = FALSE
    /\ plan = [f \in Calls |-> <<>>]

\* A conversion reads btcPrice and writes nothing but its result.
Converted(c) ==
    /\ conv' = c
    /\ UNCHANGED <<btcPrice, currentApiSource, elements, listener, priceDot,
                   priceDisplay, apiSourceDisplay, running, call, plan,
                   lastParsed, lastParsedFrom, lastSuccess, lastDone>>

CallEurToBtc(eur) ==
    Converted(Conv("eurToBtc", eur, EurToBtc(GetBtcPrice, eur), GetBtcPrice,
                   Zero, Null))

CallEurToSats(eur) ==
    Converted(Conv("eurToSats", eur, EurToSats(GetBtcPrice, eur), GetBtcPrice,
                   Zero, Null))

\* btcToEur of the result of the eurToBtc called before.
CallBtcToEurBack ==
    /\ conv.fn = "eurToBtc"
    /\ Converted(Conv("btcToEur", conv.out, BtcToEur(GetBtcPrice, conv.out),
                      GetBtcPrice, conv.arg, conv.price))

CallBtcToEur(btc) ==
    Converted(Conv("btcToEur", btc, BtcToEur(GetBtcPrice, btc), GetBtcPrice,
                   Zero, Null))

\* satsToEur of the result of the eurToSats called before.
CallSatsToEurBack ==
    /\ conv.fn = "eurToSats"
    /\ Converted(Conv("satsToEur", conv.out, SatsToEur(GetBtcPrice, conv.out),
                      GetBtcPrice, conv.arg, conv.price))

CallSatsToEur(sats) ==
    Converted(Conv("satsToEur", sats, SatsToEur(GetBtcPrice, sats),
                   GetBtcPrice, Zero, Null))

Convert ==
    \/ \E eur \in Amounts : CallEurToBtc(eur)
    \/ \E eur \in Amounts : CallEurToSats(eur)
    \/ CallBtcToEurBack
    \/ \E btc \in OtherAmounts : CallBtcToEur(btc)
    \/ CallSatsToEurBack
    \/ \E sats \in OtherAmounts : CallSatsToEur(sats)

NextConv == CallFetch \/ Settle \/ Convert

SpecConv == InitConv /\ [][NextConv]_vars

----------------------------------------------------------------------------
(* Helpers of the properties.                                               *)

\* A price is a non-negative number.
IsValidPrice(v) == v.t = "number" /\ v.n >= 0

Done(f) == call[f].pc = "done"
Scripted(f) == plan[f] # <<>>
UpTo(n) == [k \in 1..n |-> k]
Times(seq, x) == Cardinality({j \in 1..Len(seq) : seq[j] = x})

\* Source k's answer a holds a non-negative number where parsePrice reads.
YieldsValidPrice(k, a) ==
    /\ a.net = "ok"
    /\ a.json = "ok"
    /\ ~ParsePrice(k, a.body).threw
    /\ IsValidPrice(ParsePrice(k, a.body).value)

\* The first source of the script that yields a valid price, 0 if none does.
FirstValid(script) ==
    IF \E k \in 1..NumSources : YieldsValidPrice(k, script[k])
    THEN CHOOSE k \in 1..NumSources :
            /\ YieldsValidPrice(k, script[k])
            /\ \A j \in 1..(k - 1) : ~YieldsValidPrice(j, script[j])
    ELSE 0

\* Source k fails by a rejected request, a response that is not ok, a body
\* that is not JSON or a parsePrice that throws.
FailsPlainly(k, a) ==
    \/ a.net \in {"reject", "notok"}
    \/ a.json = "bad"
    \/ ParsePrice(k, a.body).threw

\* The source an invocation that returned a price took it from.
SourceOf(f) == API_SOURCES[call[f].requested[Len(call[f].requested)]].name

\* What an invocation leaves behind, the presentation elements aside.
Outcome(s, c) ==
    [status |-> c.status, ret |-> c.ret, requested |-> c.requested,
     btcPrice |-> s.btcPrice, currentApiSource |-> s.currentApiSource]

\* fetchBtcPrice run to its end from the configuration r against a script.
RECURSIVE Run(_, _)
Run(r, script) ==
    CASE r.c.pc = "fetch" ->
            Run(OnFetch(r.s, r.c, script[r.c.api].net), script)
      [] r.c.pc = "json" ->
            Run(OnJson(r.s, r.c, script[r.c.api].json, script[r.c.api].body),
                script)
      [] OTHER -> r

\* The state invocation f started in, in a document without the three
\* presentation elements.
DetachedBefore(f) ==
    [Shared EXCEPT !.btcPrice = call[f].before.btcPrice,
                   !.currentApiSource = call[f].before.currentApiSource,
                   !.elements = @ \ {"price-dot", "btc-price", "api-source"}]

\* The requests outstanding: <<invocation, source>>.
Outstanding == {x \in Calls \X (1..NumSources) : x[2] \in call[x[1]].pending}

----------------------------------------------------------------------------
(* Properties.                                                              *)

\* C1: sources are requested in the order of API_SOURCES, and when source i
\* is the first of an invocation's sources to yield a valid price, the
\* invocation returns with currentApiSource = source i's name, btcPrice = the
\* value parsed from source i, and sources 1..i requested and none after i.
C1_FirstValidSourceRecorded ==
    \A f \in Calls :
        (Scripted(f) /\ Done(f) /\ FirstValid(plan[f]) # 0) =>
            LET i == FirstValid(plan[f]) IN
            /\ call[f].status = "success"
            /\ currentApiSource = API_SOURCES[i].name
            /\ btcPrice = ParsePrice(i, plan[f][i].body).value
            /\ call[f].requested = UpTo(i)

\* C2: an invocation in which every source fails returns null and leaves
\* btcPrice at the value it had when the invocation started.
C2_AllFailKeepsPrice ==
    \A f \in Calls :
        (Done(f) /\ call[f].status = "failure") =>
            /\ call[f].ret = Null
            /\ btcPrice = call[f].before.btcPrice

\* C3: for the same answers of the sources, an invocation ends with the same
\* status, return value, requests, btcPrice and currentApiSource as it does
\* in a document without price-dot, btc-price and api-source.
C3_SameWithOrWithoutUi ==
    \A f \in Calls :
        (Scripted(f) /\ Done(f)) =>
            LET r == Run(Begin(DetachedBefore(f), IdleCall), plan[f])
            IN  Outcome(Shared, call[f]) = Outcome(r.s, r.c)

\* C4: btcPrice is null until parsePrice has returned a value, and from then
\* on it is null or the value parsePrice returned most recently.
C4_PriceIsUnsetOrLastParsed ==
    /\ btcPrice # Null => btcPrice = lastParsed
    /\ (\A f \in Calls : call[f].writes = <<>>) => btcPrice = Null

\* C4 witness: two invocations have stored a price, and btcPrice is the one
\* parsed last and differs from the one stored first.
C4_Witness ==
    /\ \A f \in {1, 2} : call[f].writes # <<>>
    /\ btcPrice = lastParsed
    /\ \E f \in {1, 2} : call[f].writes[1] # btcPrice
    /\ IsValidPrice(btcPrice)

\* C5: every value fetchBtcPrice stores in btcPrice, and every value it
\* returns as a price, is a non-negative number.
C5_OnlyValidPrices ==
    \A f \in Calls :
        /\ \A j \in 1..Len(call[f].writes) : IsValidPrice(call[f].writes[j])
        /\ call[f].status = "success" => IsValidPrice(call[f].ret)

\* C6: once no invocation is in flight, btcPrice and currentApiSource hold
\* the result of the invocation that returned a price last.
C6_LastCompletedSuccessWins ==
    (InFlight = {} /\ lastSuccess # 0) =>
        /\ btcPrice = call[lastSuccess].ret
        /\ currentApiSource = SourceOf(lastSuccess)

\* C7 as stated: at most one request is outstanding at any moment.
C7_AtMostOneRequest == Cardinality(Outstanding) <= 1

\* C7: every invocation in flight has exactly one request outstanding, to
\* the source its loop is at, and no invocation has more than one; the
\* requests outstanding are as many as the invocations in flight.
C7_OneRequestPerInvocation ==
    /\ \A f \in Calls :
          call[f].pending = IF f \in InFlight THEN {call[f].api} ELSE {}
    /\ Cardinality(Outstanding) = Cardinality(InFlight)

\* C7 witness: two invocations overlap, each with a request outstanding.
C7_Witness ==
    /\ Cardinality(InFlight) = 2
    /\ Cardinality(Outstanding) = 2

\* C8: an invocation dispatches one btcPriceUpdated for each value it wrote
\* to btcPrice, carrying that value, and none when every source failed.
C8_EveryWriteNotified ==
    \A f \in Calls :
        Done(f) =>
            /\ call[f].dispatched = call[f].writes
            /\ call[f].status = "failure" => call[f].dispatched = <<>>

\* C9: no source is requested twice; when a source that is not the last
\* fails by rejection, a response not ok, a body that is not JSON or a
\* throwing parsePrice, the next source is requested exactly once; with
\* source 1 failing so and source 2 answering 50000 the invocation returns
\* 50000 from Blockchain.info after one request to each of the two.
C9_FailureMovesToNextSource ==
    \A f \in Calls :
        Scripted(f) =>
            /\ \A k \in 1..NumSources : Times(call[f].requested, k) <= 1
            /\ \A k \in 1..(NumSources - 1) :
                  (/\ FailsPlainly(k, plan[f][k])
                   /\ Times(call[f].requested, k) = 1
                   /\ call[f].api # k)
                  => Times(call[f].requested, k + 1) = 1
            /\ (/\ Done(f)
                /\ FailsPlainly(1, plan[f][1])
                /\ plan[f][2] = Answer("ok", "ok", Body(TRUE, Num(5000000))))
               => /\ call[f].status = "success"
                  /\ call[f].ret = Num(5000000)
                  /\ btcPrice = Num(5000000)
                  /\ currentApiSource = "Blockchain.info"
                  /\ call[f].requested = <<1, 2>>

\* C9 witness: source 1 answered not ok, source 2 answered 50000, and the
\* invocation has returned.
C9_Witness ==
    /\ Scripted(1)
    /\ Done(1)
    /\ plan[1][1].net = "notok"
    /\ plan[1][2] = Answer("ok", "ok", Body(TRUE, Num(5000000)))
    /\ call[1].requested = <<1, 2>>

\* C10: the promise of fetchBtcPrice never rejects: an invocation that has
\* ended has returned the price it stored or null.
C10_NeverRejects ==
    \A f \in Calls :
        /\ call[f].status # "rejected"
        /\ Done(f) =>
              \/ call[f].status = "failure" /\ call[f].ret = Null
              \/ /\ call[f].status = "success"
                 /\ call[f].ret = call[f].writes[Len(call[f].writes)]

\* C10 witness: in a document with btc-price and a listener that throws,
\* the request to the first source was rejected, the second source's price
\* made formatEur throw, the third source's price was dispatched to the
\* listener, and the invocation has returned it.
C10_Witness ==
    /\ Scripted(1)
    /\ Done(1)
    /\ "btc-price" \in elements
    /\ listener = "throws"
    /\ plan[1][1].net = "reject"
    /\ plan[1][2] = Answer("ok", "ok", Body(TRUE, Undefined))
    /\ plan[1][3] = Answer("ok", "ok", Body(TRUE, Str(5000000)))
    /\ call[1].requested = <<1, 2, 3>>
    /\ call[1].writes = <<Undefined, Num(4600000)>>
    /\ call[1].dispatched = <<Num(4600000)>>
    /\ call[1].ret = Num(4600000)

\* What a reader of the page can observe: getBtcPrice(), currentApiSource and
\* the elements that exist.
Observable ==
    [price |-> GetBtcPrice, source |-> currentApiSource,
     dot |-> IF "price-dot" \in elements THEN priceDot ELSE "(none)",
     display |-> IF "btc-price" \in elements THEN priceDisplay
                 ELSE Text("(none)", 0)]

\* What the same reader observes on the page before any fetch.
NeverFetched ==
    [price |-> Null, source |-> NoSource,
     dot |-> IF "price-dot" \in elements THEN "(markup)" ELSE "(none)",
     display |-> IF "btc-price" \in elements THEN Markup ELSE Text("(none)", 0)]

\* C11 as stated: after an invocation in which all sources failed, the
\* observable state differs from the never-fetched state, and the elements
\* that exist show the failure.
C11_FailureStateIsDistinct ==
    \A f \in Calls :
        (Done(f) /\ call[f].status = "failure") =>
            /\ Observable # NeverFetched
            /\ "price-dot" \in elements => priceDot = "price-dot error"
            /\ "btc-price" \in elements => priceDisplay = SinConexion

\* C11: after an invocation in which all sources failed, null was returned,
\* price-dot (if it exists) has class 'price-dot error' and btc-price (if it
\* exists) shows 'sin conexión', whatever price is held; in a document
\* without btc-price, btcPrice and currentApiSource are what they were before
\* the invocation, so that a page that never fetched a price reads the same
\* through getBtcPrice and currentApiSource as before.
C11_FailureIndicatorRaised ==
    \A f \in Calls :
        (Done(f) /\ call[f].status = "failure") =>
            /\ call[f].ret = Null
            /\ "price-dot" \in elements => priceDot = "price-dot error"
            /\ "btc-price" \in elements => priceDisplay = SinConexion
            /\ "btc-price" \notin elements =>
                  /\ GetBtcPrice = call[f].before.btcPrice
                  /\ currentApiSource = call[f].before.currentApiSource

\* C11 witness: all sources failed while a price of an earlier fetch is
\* held, and both elements show the failure.
C11_Witness ==
    /\ Done(1)
    /\ call[1].status = "failure"
    /\ call[1].requested = <<1, 2, 3>>
    /\ GetBtcPrice = Num(6000000)
    /\ priceDot = "price-dot error"
    /\ priceDisplay = SinConexion

\* |x|
Abs(x) == IF x >= 0 THEN x ELSE -x

\* The conversion called last took the result of the one before, and the
\* price was a positive number, the same in both calls.
RoundTrip(fn) ==
    /\ conv.fn = fn
    /\ conv.srcPrice # Null
    /\ conv.src.p > 0
    /\ conv.price = conv.srcPrice
    /\ conv.price.t = "number"
    /\ conv.price.n > 0

\* out reproduces the amount a within a thousandth of a (rationals carry no
\* rounding error of their own, a double's is below 10^-15 of a).
Reproduces(out, a) ==
    Abs(out.p * a.q - a.p * out.q) <= (a.p * out.q) \div 1000

\* out, a result of satsToEur, is within half a satoshi's worth of a EUR:
\* |out - a| <= price / (2 * 10^8).
WithinHalfSat(out, a, price) ==
    LET scaled == IF out.q = SatsPerBtc THEN out.p * a.q
                  ELSE out.p * a.q * (SatsPerBtc \div out.q)
    IN  2 * Abs(scaled - a.p * SatsPerBtc) <= a.q * price.n

\* C12: each conversion returns 0 when the price it reads is unset or its
\* amount is not positive, so eurToSats(0) and eurToSats(-5) are 0 whatever
\* price is held; and a conversion leaves btcPrice and currentApiSource alone.
C12_ZeroWhenUnsetOrNonPositive ==
    /\ [](conv.fn # "none" =>
            ((conv.price = Null \/ conv.arg.p <= 0) => conv.out = Zero))
    /\ [][conv' # conv =>
            (btcPrice' = btcPrice /\ currentApiSource' = currentApiSource)]_vars

\* C12 witness: eurToSats(-5) was called while a price of 50000 is held.
C12_Witness ==
    /\ conv.fn = "eurToSats"
    /\ conv.arg = Ratio(-500, 1)
    /\ conv.price = Num(5000000)
    /\ GetBtcPrice = Num(5000000)
    /\ conv.out = Zero

\* C13 as stated: for a positive amount a and a fixed price,
\* btcToEur(eurToBtc(a)) and satsToEur(eurToSats(a)) both reproduce a within
\* the tolerance.
C13_RoundTripsReproduce ==
    /\ RoundTrip("btcToEur") => Reproduces(conv.out, conv.src)
    /\ RoundTrip("satsToEur") => Reproduces(conv.out, conv.src)

\* C13: for a positive amount a and a fixed positive price P,
\* btcToEur(eurToBtc(a)) reproduces a within the tolerance, and
\* satsToEur(eurToSats(a)) is within half a satoshi's worth of a, that is
\* within P / (2 * 10^8), eurToSats(a) being a non-negative integer.
C13_RoundTripWithinHalfSat ==
    /\ RoundTrip("btcToEur") => Reproduces(conv.out, conv.src)
    /\ RoundTrip("satsToEur") =>
          /\ conv.arg.q = 1
          /\ conv.arg.p >= 0
          /\ WithinHalfSat(conv.out, conv.src, conv.price)

\* C13 witness: at a price of 60000, one cent became 17 satoshis (from
\* 16.67) and these became 1.02 cent.
C13_Witness ==
    /\ RoundTrip("satsToEur")
    /\ conv.price = Num(6000000)
    /\ conv.src = Ratio(1, 1)
    /\ conv.arg = Ratio(17, 1)
    /\ conv.out = Ratio(102000000, SatsPerBtc)

\* C14: eurToSats returns a non-negative integer for every amount and every
\* price fetchBtcPrice has stored.
C14_SatsNonNegativeInteger ==
    conv.fn = "eurToSats" => (conv.out.q = 1 /\ conv.out.p >= 0)

\* C15: an invocation requests no source twice, at most NumSources in all,
\* ends only as a success or a failure, and, its requests and body reads
\* settling, it does end.
C15_FetchTerminates ==
    /\ [](\A f \in Calls :
            /\ Len(call[f].requested) <= NumSources
            /\ \A k \in 1..NumSources : Times(call[f].requested, k) <= 1
            /\ Done(f) => call[f].status \in {"success", "failure"})
    /\ \A f \in Calls : (call[f].pc # "idle") ~> Done(f)

\* C15 witness: an invocation has ended after one request to each source.
C15_Witness ==
    /\ Done(1)
    /\ call[1].requested = <<1, 2, 3>>
    /\ call[1].status = "success"

\* C16: in every state between two steps of the event loop, btcPrice and
\* currentApiSource are the value parsed last and the name of the source it
\* was parsed from, and both are null exactly as long as nothing was
\* written.
C16_PriceAndSourceWrittenTogether ==
    /\ (\A f \in Calls : call[f].writes = <<>>)
          <=> (btcPrice = Null /\ currentApiSource = NoSource)
    /\ btcPrice = lastParsed
    /\ currentApiSource = lastParsedFrom

\* C16 witness: while one invocation awaits a response, another has stored
\* the price of the second source.
C16_Witness ==
    /\ call[1].pc = "fetch"
    /\ call[2].writes # <<>>
    /\ Done(2)
    /\ currentApiSource = "Blockchain.info"
    /\ btcPrice = Num(5000000)

\* C17: in a document with price-dot, the class is 'price-dot loading' only
\* while an invocation is in flight, and when none is in flight and one has
\* ended, it is 'price-dot' if the invocation that ended last returned a
\* price and 'price-dot error' if it returned null.
C17_DotReflectsLastOutcome ==
    "price-dot" \in elements =>
        /\ priceDot = "price-dot loading" => InFlight # {}
        /\ (InFlight = {} /\ lastDone # 0) =>
              priceDot = IF call[lastDone].status = "success"
                         THEN "price-dot" ELSE "price-dot error"

\* C17 witness: of two overlapping invocations the one started second
\* returned a price first, the one started first failed last, and the dot
\* shows the error.
C17_Witness ==
    /\ "price-dot" \in elements
    /\ InFlight = {}
    /\ lastSuccess = 2
    /\ lastDone = 1
    /\ call[1].status = "failure"
    /\ priceDot = "price-dot error"

====
